---- MODULE Spec2Model ----
(***************************************************************************)
(* The client-side upload queue of the media library: the two MediaProvider *)
(* implementations of the repository,                                       *)
(*   "effect": src/templates/Media/Components/MediaGridView.tsx:1280-1864,  *)
(*             where a useEffect re-evaluates admission after every change  *)
(*             of activeUploads.size, uploadQueue.length or the limit;      *)
(*   "direct": src/templates/Media/Redux/MediaAPISlice.ts:234-872, where    *)
(*             uploadFiles and retryUpload call the queue processor.        *)
(*                                                                          *)
(* One step of the model is one task of the JavaScript event loop: a        *)
(* context operation called by the UI, a timer callback, or a transport     *)
(* event (progress, success, failure, cancel rejection) with the promise    *)
(* continuations it resumes, followed by the React render and the effects   *)
(* that render runs.  Functions created in a render read the state of that  *)
(* render (their closure); updater functions read the latest state.  The    *)
(* File objects are mutable and shared by acceptedFiles, uploadQueue and    *)
(* every closure, so status, progress and cancelTokenSource are modelled as *)
(* fields of the object, outside the React state.                           *)
(***************************************************************************)
EXTENDS Integers, Sequences, FiniteSets, TLC

\* ------------------------------------------------------------------ bounds
NFiles == 2            \* candidates that can be accepted in one session
NRejected == 1         \* rejected files that can be recorded
MaxAttempts == 2       \* transport calls started per candidate
MaxTimers == 2         \* pending queue-processor timers ("direct")
MaxSweeps == 2         \* pending 2000 ms sweep timers
MaxLimit == 2          \* largest value of uploadConfig.maxConcurrentUploads
MaxCallsPerTask == 2   \* uploadFiles calls made from one render's closure
MaxUserOps == 3        \* context operations per session, addAcceptedFiles apart
MaxFileSize == 2       \* uploadConfig.maxFileSize, scaled down

Ids == 1..NFiles
RejectedIds == (NFiles + 1)..(NFiles + NRejected)
UnknownId == NFiles + NRejected + 1
Limits == 1..MaxLimit
Variants == {"effect", "direct"}
ProgressValues == {42, 100}
\* error.response?.data?.message || error.message, or "Upload failed"
FailureMessages == {"Upload failed"}
\* setTimeout(() => processUploadQueue(), 100)
RearmDelay == 100

VARIABLES
    variant,               \* which MediaProvider is mounted
    acceptedFiles,         \* useState<UploadedFile[]>: sequence of candidate ids
    rejectedFiles,         \* useState<RejectedFile[]>: sequence of rejected ids
    uploadQueue,           \* useState<UploadedFile[]>: sequence of candidate ids
    activeUploads,         \* useState<Set<string>>
    uploadErrors,          \* useState<Map<string,string>>: id -> message
    uploadComplete,        \* null ({}) or {[successful, failed]}
    maxConcurrentUploads,  \* uploadConfig.maxConcurrentUploads
    status,                \* file.status of every File object
    progress,              \* file.progress
    cancelTokenSource,     \* file.cancelTokenSource: 0 or the attempt it belongs to
    started,               \* number of uploadFile calls that reached axios.post
    inflight,              \* transport calls not yet settled
    admitTimer,            \* "effect": the pending 50 ms processQueue timer, closure
    timers,                \* "direct": pending setTimeout(processUploadQueue...) closures,
                           \* in the order of their creation
    procs,                 \* "direct": processors suspended in Promise.allSettled
    sweepTimers,           \* pending 2000 ms sweep timers of the completion effect
    nextId,                \* candidates accepted so far
    nextRejected,          \* rejected files recorded so far
    userOps,               \* context operations called so far
    size,                  \* file.size of every File object, in bytes
    lastOp,                \* the task that ran last: <<name, argument>>
    fileName,              \* file.name of every File object
    fileType,              \* file.type
    lastModified,          \* file.lastModified
    previewUrls,           \* useState<Map<string,string>>: file key -> object URL
    objectUrlsRef,         \* useRef<Set<string>>: object URLs to revoke on unmount
    createdUrls,           \* object URLs created so far by URL.createObjectURL
    revokedUrls,           \* object URLs passed to URL.revokeObjectURL
    mounted,               \* the provider is mounted
    csrfTokenCache,        \* rtk-base-query: let csrfTokenCache
    isFetchingToken,       \* rtk-base-query: let isFetchingToken
    csrfPc,                \* where each call of fetchAndCacheCSRFToken stands
    fetchCount,            \* token requests sent to the network so far
    fetchOf,               \* per call: its own request, or the one in flight when
                           \* it was made
    joined,                \* calls made while a request was in flight
    stored,                \* per request: what it stored in csrfTokenCache
    returned,              \* per call: the value it returned
    downloadState,         \* useMediaDownload: useState<DownloadState>
    downloads,             \* per media item: the state of its download() call
    downloadCount,         \* download() calls made so far
    resetTimers            \* pending 2000 ms reset timers of onComplete

vars == <<variant, acceptedFiles, rejectedFiles, uploadQueue, activeUploads,
          uploadErrors, uploadComplete, maxConcurrentUploads, status, progress,
          cancelTokenSource, started, inflight, admitTimer, timers, procs,
          sweepTimers, nextId, nextRejected, userOps, size, lastOp,
          fileName, fileType, lastModified, previewUrls, objectUrlsRef,
          createdUrls, revokedUrls, mounted,
          csrfTokenCache, isFetchingToken, csrfPc, fetchCount, fetchOf, joined,
          stored, returned, downloadState, downloads, downloadCount, resetTimers>>

\* The state of the upload provider, of the token cache and of the download hook.
mediaVars == <<variant, acceptedFiles, rejectedFiles, uploadQueue, activeUploads,
               uploadErrors, uploadComplete, maxConcurrentUploads, status, progress,
               cancelTokenSource, started, inflight, admitTimer, timers, procs,
               sweepTimers, nextId, nextRejected, userOps, size, lastOp,
               fileName, fileType, lastModified, previewUrls, objectUrlsRef,
               createdUrls, revokedUrls, mounted>>

csrfVars == <<csrfTokenCache, isFetchingToken, csrfPc, fetchCount, fetchOf, joined,
              stored, returned>>

downloadVars == <<downloadState, downloads, downloadCount, resetTimers>>

\* ----------------------------------------------------------------- helpers
Range(seq) == {seq[i] : i \in 1..Len(seq)}

Contains(seq, x) == \E i \in 1..Len(seq) : seq[i] = x

\* Array.prototype.filter(f => f.id !== id)
Without(seq, id) == SelectSeq(seq, LAMBDA x : x # id)

\* Array.prototype.filter(f => !ids.has(f.id))
WithoutAll(seq, ids) == SelectSeq(seq, LAMBDA x : x \notin ids)

\* Array.prototype.filter((_, i) => i !== index), index counted from 1
RemoveAt(seq, index) ==
    [i \in 1..(Len(seq) - 1) |-> IF i < index THEN seq[i] ELSE seq[i + 1]]

\* Array.prototype.slice(0, n): a negative n counts from the end
Slice0(seq, n) ==
    LET end == IF n >= 0
               THEN (IF n < Len(seq) THEN n ELSE Len(seq))
               ELSE (IF Len(seq) + n > 0 THEN Len(seq) + n ELSE 0)
    IN  SubSeq(seq, 1, end)

Min(a, b) == IF a < b THEN a ELSE b

\* The whole program state as one value, so that an operation can call another.
State ==
    [acceptedFiles |-> acceptedFiles, rejectedFiles |-> rejectedFiles,
     uploadQueue |-> uploadQueue, activeUploads |-> activeUploads,
     uploadErrors |-> uploadErrors, uploadComplete |-> uploadComplete,
     maxConcurrentUploads |-> maxConcurrentUploads, status |-> status,
     progress |-> progress, cancelTokenSource |-> cancelTokenSource,
     started |-> started, inflight |-> inflight, admitTimer |-> admitTimer,
     timers |-> timers, procs |-> procs, sweepTimers |-> sweepTimers,
     nextId |-> nextId, nextRejected |-> nextRejected]

\* What a function created in the current render reads from its closure.
Closure(s) ==
    [uploadQueue |-> s.uploadQueue, activeUploads |-> s.activeUploads,
     maxConcurrentUploads |-> s.maxConcurrentUploads]

\* setAcceptedFiles(prev => prev.map(f => f.id === id ? mutate(f) : f)):
\* only an object that is in acceptedFiles is mutated.
SetStatus(s, id, st) ==
    IF Contains(s.acceptedFiles, id) THEN [s EXCEPT !.status[id] = st] ELSE s

SetProgress(s, id, p) ==
    IF Contains(s.acceptedFiles, id) THEN [s EXCEPT !.progress[id] = p] ELSE s

\* cancelTokenSource.cancel(...): marks the call that owns the token, if that
\* call has not settled yet.
SignalToken(s, id) ==
    [s EXCEPT !.inflight =
        {IF c.file = id /\ c.attempt = s.cancelTokenSource[id]
         THEN [c EXCEPT !.cancelled = TRUE] ELSE c : c \in @}]

\* Map.set / Map.delete on uploadErrors
MapSet(m, id, msg) == [i \in DOMAIN m \cup {id} |-> IF i = id THEN msg ELSE m[i]]

MapDelete(m, id) == [i \in DOMAIN m \ {id} |-> m[i]]

EmptyMap == [i \in {} |-> ""]

\* ------------------------------------------------ operations shared by both
\* uploadFile up to its await: token, status, active set, axios.post.
UploadFileStart(s, id) ==
    LET n  == s.started[id] + 1
        s1 == [s EXCEPT !.cancelTokenSource[id] = n,
                        !.started[id] = n,
                        !.inflight = @ \cup {[file |-> id, attempt |-> n,
                                              cancelled |-> FALSE, sent |-> 0]}]
        s2 == SetProgress(SetStatus(s1, id, "uploading"), id, 0)
    IN  [s2 EXCEPT !.activeUploads = @ \cup {id}]

\* filesToUpload.forEach(file => uploadFile(file))
RECURSIVE StartAll(_, _)
StartAll(s, files) ==
    IF files = <<>> THEN s
    ELSE StartAll(UploadFileStart(s, Head(files)), Tail(files))

\* onUploadProgress: Math.round(loaded * 100 / total) written into the object
OnUploadProgress(s, id, p) == SetProgress(s, id, p)

\* addAcceptedFiles that also puts the new candidates into the upload queue
AddAcceptedFilesEnqueued(s, k) ==
    [s EXCEPT !.acceptedFiles = @ \o [i \in 1..k |-> s.nextId + i],
              !.uploadQueue = @ \o [i \in 1..k |-> s.nextId + i],
              !.status = [id \in Ids |->
                  IF id \in (s.nextId + 1)..(s.nextId + k) THEN "pending" ELSE @[id]],
              !.progress = [id \in Ids |->
                  IF id \in (s.nextId + 1)..(s.nextId + k) THEN 0 ELSE @[id]],
              !.nextId = @ + k]

AddAcceptedFiles(s, k) ==
    [s EXCEPT !.acceptedFiles = @ \o [i \in 1..k |-> s.nextId + i],
              !.status = [id \in Ids |->
                  IF id \in (s.nextId + 1)..(s.nextId + k) THEN "pending" ELSE @[id]],
              !.progress = [id \in Ids |->
                  IF id \in (s.nextId + 1)..(s.nextId + k) THEN 0 ELSE @[id]],
              !.nextId = @ + k]

AddRejectedFiles(s) ==
    [s EXCEPT !.rejectedFiles = Append(@, NFiles + s.nextRejected + 1),
              !.nextRejected = @ + 1]

RemoveRejectedFile(s, index) ==
    [s EXCEPT !.rejectedFiles = RemoveAt(@, index)]

UpdateUploadConfig(s, limit) == [s EXCEPT !.maxConcurrentUploads = limit]

ClearUploadComplete(s) == [s EXCEPT !.uploadComplete = {}]

\* The 2000 ms timer of the completion effect.
Sweep(s) ==
    [s EXCEPT !.acceptedFiles =
                  SelectSeq(@, LAMBDA f : s.status[f] \notin {"completed", "failed"}),
              !.sweepTimers = @ - 1]

\* "Monitor upload completion" effect.
CompletionEffect(s) ==
    LET done == SelectSeq(s.acceptedFiles,
                          LAMBDA f : s.status[f] \in {"completed", "failed"})
        successful == Len(SelectSeq(done, LAMBDA f : s.status[f] = "completed"))
        failed == Len(SelectSeq(done, LAMBDA f : s.status[f] = "failed"))
    IN  IF /\ s.activeUploads = {}
           /\ s.uploadQueue = <<>>
           /\ Len(done) > 0
           /\ s.uploadComplete = {}
           /\ (successful > 0 \/ failed > 0)
        THEN [s EXCEPT !.uploadComplete =
                           {[successful |-> successful, failed |-> failed]},
                       !.sweepTimers = @ + 1]
        ELSE s

\* ------------------------------------------------------- "effect" provider
\* cancelUpload that forgets to release the slot: C6 must tell it apart
CancelUploadKeepingSlotE(s, fileId) ==
    LET s1 == IF Contains(s.acceptedFiles, fileId) /\ s.cancelTokenSource[fileId] # 0
              THEN SignalToken(s, fileId) ELSE s
        s2 == [s1 EXCEPT !.uploadQueue = Without(@, fileId)]
    IN  SetStatus(s2, fileId, "cancelled")

CancelUploadE(s, fileId) ==
    LET s1 == IF Contains(s.acceptedFiles, fileId) /\ s.cancelTokenSource[fileId] # 0
              THEN SignalToken(s, fileId) ELSE s
        s2 == [s1 EXCEPT !.activeUploads = @ \ {fileId},
                         !.uploadQueue = Without(@, fileId)]
    IN  SetStatus(s2, fileId, "cancelled")

\* removeAcceptedFile without its cancelUpload(id) call
RemoveAcceptedFileNoCancelE(s, index) ==
    LET fileToRemove == s.acceptedFiles[index]
        s2 == [s EXCEPT !.uploadQueue = Without(@, fileToRemove)]
    IN  [s2 EXCEPT !.acceptedFiles = RemoveAt(@, index)]

RemoveAcceptedFileE(s, index) ==
    LET fileToRemove == s.acceptedFiles[index]
        s1 == CancelUploadE(s, fileToRemove)
        s2 == [s1 EXCEPT !.uploadQueue = Without(@, fileToRemove)]
    IN  [s2 EXCEPT !.acceptedFiles = RemoveAt(@, index)]

CancelAllUploadsE(s) ==
    LET hit == {f \in Range(s.acceptedFiles) :
                    f \in s.activeUploads /\ s.cancelTokenSource[f] # 0}
        s1 == [s EXCEPT !.inflight =
                   {IF c.file \in hit /\ c.attempt = s.cancelTokenSource[c.file]
                    THEN [c EXCEPT !.cancelled = TRUE] ELSE c : c \in @}]
    IN  [s1 EXCEPT !.activeUploads = {},
                   !.uploadQueue = <<>>,
                   !.status = [f \in Ids |->
                       IF Contains(s.acceptedFiles, f) /\ @[f] \in {"uploading", "pending"}
                       THEN "cancelled" ELSE @[f]],
                   !.uploadErrors = EmptyMap]

ClearAllFilesE(s) ==
    [CancelAllUploadsE(s) EXCEPT !.acceptedFiles = <<>>,
                                 !.rejectedFiles = <<>>,
                                 !.uploadQueue = <<>>,
                                 !.uploadErrors = EmptyMap]

\* uploadFiles called from a render whose closure holds the queue cq
UploadFilesE(s, cq, files) ==
    LET filesToAdd == SelectSeq(files, LAMBDA f : ~Contains(cq, f))
    IN  IF Len(filesToAdd) > 0
        THEN [s EXCEPT !.uploadQueue = @ \o filesToAdd]
        ELSE s

\* retryUpload without its test of the status: C10 must tell it apart
RetryUploadAnyStatusE(s, fileId) ==
    IF Contains(s.acceptedFiles, fileId)
    THEN LET s1 == SetProgress(SetStatus(s, fileId, "pending"), fileId, 0)
         IN  [s1 EXCEPT !.uploadQueue =
                            IF Contains(@, fileId) THEN @ ELSE Append(@, fileId),
                        !.uploadErrors = MapDelete(@, fileId)]
    ELSE s

RetryUploadE(s, fileId) ==
    IF Contains(s.acceptedFiles, fileId) /\ s.status[fileId] \in {"failed", "cancelled"}
    THEN LET s1 == SetProgress(SetStatus(s, fileId, "pending"), fileId, 0)
         IN  [s1 EXCEPT !.uploadQueue =
                            IF Contains(@, fileId) THEN @ ELSE Append(@, fileId),
                        !.uploadErrors = MapDelete(@, fileId)]
    ELSE s

\* finally block of uploadFile; "!Error || axios.isCancel(Error)" tests the
\* global Error constructor and is always false, so no error is removed.
UploadFileFinallyE(s, id) ==
    [s EXCEPT !.activeUploads = @ \ {id},
              !.uploadQueue = Without(@, id)]

UploadSucceededE(s, id) ==
    UploadFileFinallyE([s EXCEPT !.acceptedFiles = Without(@, id)], id)

UploadFailedE(s, id, msg) ==
    UploadFileFinallyE(
        [SetStatus(s, id, "failed") EXCEPT !.uploadErrors = MapSet(@, id, msg)], id)

UploadCancelledE(s, id) ==
    UploadFileFinallyE(SetStatus(s, id, "cancelled"), id)

\* processQueue of the admission effect, run by its 50 ms timer with closure c
ProcessQueueE(s, c) ==
    IF Len(c.uploadQueue) = 0
       \/ Cardinality(c.activeUploads) >= c.maxConcurrentUploads
    THEN s
    ELSE LET pendingFiles == SelectSeq(c.uploadQueue, LAMBDA f : s.status[f] = "pending")
             availableSlots == c.maxConcurrentUploads - Cardinality(c.activeUploads)
             filesToUpload == Slice0(pendingFiles, availableSlots)
         IN  StartAll(s, filesToUpload)

\* The admission effect re-runs when one of its dependencies changed between
\* two renders: it clears the old timer and arms a new one.
AdmissionDeps(s) ==
    <<Cardinality(s.activeUploads), Len(s.uploadQueue), s.maxConcurrentUploads>>

AdmissionEffect(before, s) ==
    IF AdmissionDeps(before) # AdmissionDeps(s)
    THEN [s EXCEPT !.admitTimer = {Closure(s)}]
    ELSE s

\* ------------------------------------------------------- "direct" provider
CancelUploadD(s, fileId) ==
    LET s1 == IF Contains(s.acceptedFiles, fileId) /\ s.cancelTokenSource[fileId] # 0
              THEN SignalToken(s, fileId) ELSE s
        s2 == [s1 EXCEPT !.activeUploads = @ \ {fileId}]
    IN  SetStatus(s2, fileId, "cancelled")

RECURSIVE CancelEachD(_, _)
CancelEachD(s, files) ==
    IF files = <<>> THEN s
    ELSE CancelEachD(CancelUploadD(s, Head(files)), Tail(files))

\* acceptedFiles.forEach(file => activeUploads.has(file.id) && cancelUpload(file.id))
CancelAllUploadsD(s) ==
    CancelEachD(s, SelectSeq(s.acceptedFiles, LAMBDA f : f \in s.activeUploads))

ClearAllFilesD(s) ==
    [CancelAllUploadsD(s) EXCEPT !.acceptedFiles = <<>>,
                                 !.rejectedFiles = <<>>,
                                 !.uploadQueue = <<>>,
                                 !.uploadErrors = EmptyMap]

RemoveAcceptedFileD(s, index) ==
    LET fileToRemove == s.acceptedFiles[index]
        s1 == CancelUploadD(s, fileToRemove)
        s2 == [s1 EXCEPT !.uploadQueue = Without(@, fileToRemove)]
    IN  [s2 EXCEPT !.acceptedFiles = RemoveAt(@, index)]

UploadSucceededD(s, id) ==
    LET s1 == SetProgress(SetStatus(s, id, "completed"), id, 100)
    IN  [s1 EXCEPT !.activeUploads = @ \ {id},
                   !.uploadErrors = MapDelete(@, id)]

\* a catch block that gives up every upload in progress, not only the failed one
UploadFailedAllD(s, id, msg) ==
    LET s1 == [s EXCEPT !.activeUploads = {}]
    IN  [s1 EXCEPT !.status = [g \in DOMAIN @ |->
                                IF @[g] = "uploading" THEN "failed" ELSE @[g]],
                   !.uploadErrors = MapSet(@, id, msg)]

UploadFailedD(s, id, msg) ==
    LET s1 == [s EXCEPT !.activeUploads = @ \ {id}]
    IN  [SetStatus(s1, id, "failed") EXCEPT !.uploadErrors = MapSet(@, id, msg)]

UploadCancelledD(s, id) ==
    SetStatus([s EXCEPT !.activeUploads = @ \ {id}], id, "cancelled")

\* A pending setTimeout(() => processUploadQueue(), delay) of the render with
\* closure c, or setTimeout(() => processUploadQueueWithFiles(queueFiles), 0).
PlainTimer(c, delay) ==
    [withFiles |-> FALSE, queueFiles |-> c.uploadQueue, c |-> c, delay |-> delay]

FilesTimer(c, queueFiles) ==
    [withFiles |-> TRUE, queueFiles |-> queueFiles, c |-> c, delay |-> 0]

\* The code after "await Promise.allSettled(uploadPromises)" of a processor
\* that uploaded filesToUpload out of queueFiles with closure c.
AfterAllSettledD(s, filesToUpload, queueFiles, c) ==
    LET s1 == [s EXCEPT !.uploadQueue = WithoutAll(@, Range(filesToUpload))]
        remainingPending ==
            SelectSeq(queueFiles, LAMBDA f : s.status[f] = "pending"
                                             /\ ~Contains(filesToUpload, f))
    IN  IF Len(remainingPending) > 0
           /\ Cardinality(c.activeUploads) < c.maxConcurrentUploads
        THEN [s1 EXCEPT !.timers = Append(@, PlainTimer(c, RearmDelay))]
        ELSE s1

\* processUploadQueue (t.withFiles = FALSE) and processUploadQueueWithFiles
\* up to the await; a processor that uploads nothing resumes in the same task.
ProcessUploadQueueD(s, t) ==
    LET c == t.c
        pendingFiles == SelectSeq(t.queueFiles,
                            LAMBDA f : s.status[f] = "pending" /\ f \notin c.activeUploads)
        availableSlots == c.maxConcurrentUploads - Cardinality(c.activeUploads)
        filesToUpload == Slice0(pendingFiles, availableSlots)
        s1 == StartAll(s, filesToUpload)
        waiting == {<<u.file, u.attempt>> : u \in s1.inflight \ s.inflight}
    IN  IF Len(filesToUpload) = 0
        THEN IF t.withFiles THEN s
             ELSE AfterAllSettledD(s, filesToUpload, t.queueFiles, c)
        ELSE [s1 EXCEPT !.procs = @ \cup {[waiting |-> waiting,
                                           filesToUpload |-> filesToUpload,
                                           queueFiles |-> t.queueFiles, c |-> c]}]

\* uploadFiles called from a render with closure c
UploadFilesD(s, c, files) ==
    LET newFiles == SelectSeq(files, LAMBDA f : ~Contains(c.uploadQueue, f))
        updatedQueue == s.uploadQueue \o newFiles
    IN  IF Len(newFiles) > 0
        THEN [s EXCEPT !.uploadQueue = updatedQueue,
                       !.timers = Append(@, FilesTimer(c, updatedQueue))]
        ELSE [s EXCEPT !.timers = Append(@, PlainTimer(c, 0))]

RetryUploadD(s, fileId) ==
    IF Contains(s.acceptedFiles, fileId) /\ s.status[fileId] \in {"failed", "cancelled"}
    THEN LET s1 == SetProgress(SetStatus(s, fileId, "pending"), fileId, 0)
             s2 == [s1 EXCEPT !.uploadQueue =
                                  IF Contains(@, fileId) THEN @ ELSE Append(@, fileId),
                              !.uploadErrors = MapDelete(@, fileId)]
         IN  ProcessUploadQueueD(s2, PlainTimer(Closure(s), 0))
    ELSE s

\* A settled uploadFile promise resumes every processor that awaits nothing else.
RECURSIVE ResumeAllD(_, _)
ResumeAllD(s, ready) ==
    IF ready = {} THEN s
    ELSE LET p == CHOOSE q \in ready : TRUE
         IN  ResumeAllD(AfterAllSettledD(s, p.filesToUpload, p.queueFiles, p.c),
                        ready \ {p})

PromiseSettledD(s, call) ==
    LET key == <<call.file, call.attempt>>
        procs1 == {[p EXCEPT !.waiting = @ \ {key}] : p \in s.procs}
        ready == {p \in procs1 : p.waiting = {}}
    IN  ResumeAllD([s EXCEPT !.procs = procs1 \ ready], ready)

\* ------------------------------------------------------------------- steps
Created == 1..nextId

\* The files argument of uploadFiles: pending candidates, in list order.
PendingSelections ==
    {SelectSeq(acceptedFiles, LAMBDA f : f \in chosen) :
        chosen \in SUBSET {f \in Range(acceptedFiles) : status[f] = "pending"}} \ {<<>>}

\* File objects that the state or a pending closure can still reach.
Referenced(s) ==
    Range(s.acceptedFiles) \cup Range(s.uploadQueue)
    \cup UNION {Range(c.uploadQueue) : c \in s.admitTimer}
    \cup UNION {Range(t.queueFiles) \cup Range(t.c.uploadQueue) : t \in Range(s.timers)}
    \cup UNION {Range(p.queueFiles) \cup Range(p.c.uploadQueue) : p \in s.procs}

\* The fields of an object nothing refers to any more are not part of the
\* state: they are given fixed values.
Collect(s) ==
    LET live == Referenced(s)
        busy == {u.file : u \in s.inflight}
    IN  [s EXCEPT !.status = [f \in Ids |-> IF f \in live THEN @[f] ELSE "pending"],
                  !.progress = [f \in Ids |-> IF f \in live THEN @[f] ELSE 0],
                  !.cancelTokenSource =
                      [f \in Ids |-> IF f \in live \cup busy THEN @[f] ELSE 0],
                  !.started =
                      [f \in Ids |-> IF f \in live \cup busy \/ f > s.nextId THEN @[f]
                                     ELSE 0]]

\* ------------------------------------------------------------ previews
\* getFileKey: `${fileName}-${fileSize}-${lastModified}`. The two numbers hold
\* no "-", so two keys are equal exactly when the three parts are.
KeyOf(sz, file) == <<fileName[file], sz[file], lastModified[file]>>

getFileKey(file) == KeyOf(size, file)

isImageFile(file) == fileType[file] \in {"image/png"}

\* One forEach of the preview effect over a list of files: a key that the
\* previewUrls of the render has keeps its URL, any other image file gets a
\* new object URL from generatePreviewUrl.
RECURSIVE PreviewPass(_, _, _, _)
PreviewPass(files, old, acc, sz) ==
    IF files = <<>> THEN acc
    ELSE LET file == Head(files)
             fileKey == KeyOf(sz, file)
         IN  PreviewPass(Tail(files), old,
                 IF ~isImageFile(file) THEN acc
                 ELSE IF fileKey \in DOMAIN old
                 THEN [acc EXCEPT !.newPreviewUrls = MapSet(@, fileKey, old[fileKey]),
                                  !.newObjectUrls = @ \cup {old[fileKey]}]
                 ELSE [newPreviewUrls |-> MapSet(acc.newPreviewUrls, fileKey,
                                                 acc.created + 1),
                       newObjectUrls |-> acc.newObjectUrls \cup {acc.created + 1},
                       created |-> acc.created + 1],
                 sz)

\* useEffect(..., [acceptedFiles, rejectedFiles]): the URLs of the keys that
\* left are revoked, then the accepted and the rejected files are processed.
PreviewEffect(accepted, rejected, sz) ==
    LET currentFileKeys == {KeyOf(sz, f) : f \in Range(accepted) \cup Range(rejected)}
        gone == {previewUrls[k] : k \in DOMAIN previewUrls \ currentFileKeys}
        first == PreviewPass(accepted, previewUrls,
                             [newPreviewUrls |-> [k \in {} |-> 0],
                              newObjectUrls |-> {},
                              created |-> createdUrls],
                             sz)
        last == PreviewPass(rejected, previewUrls, first, sz)
    IN  [previewUrls |-> last.newPreviewUrls,
         objectUrlsRef |-> last.newObjectUrls,
         createdUrls |-> last.created,
         revokedUrls |-> revokedUrls \cup gone]

\* The render that follows a task, with the effects it runs, and the bounds.
CommitSized(r0, cost, op, sz) ==
    /\ mounted
    /\ userOps + cost <= MaxUserOps
    /\ \E r \in {Collect(IF variant = "effect"
                         THEN AdmissionEffect(State, CompletionEffect(r0))
                         ELSE CompletionEffect(r0))} :
        /\ \A u \in r.inflight : u.attempt <= MaxAttempts
        /\ Len(r.timers) <= MaxTimers
        /\ r.sweepTimers <= MaxSweeps
        /\ acceptedFiles' = r.acceptedFiles
        /\ rejectedFiles' = r.rejectedFiles
        /\ uploadQueue' = r.uploadQueue
        /\ activeUploads' = r.activeUploads
        /\ uploadErrors' = r.uploadErrors
        /\ uploadComplete' = r.uploadComplete
        /\ maxConcurrentUploads' = r.maxConcurrentUploads
        /\ status' = r.status
        /\ progress' = r.progress
        /\ cancelTokenSource' = r.cancelTokenSource
        /\ started' = r.started
        /\ inflight' = r.inflight
        /\ admitTimer' = r.admitTimer
        /\ timers' = r.timers
        /\ procs' = r.procs
        /\ sweepTimers' = r.sweepTimers
        /\ nextId' = r.nextId
        /\ nextRejected' = r.nextRejected
        /\ userOps' = userOps + cost
        /\ lastOp' = op
        /\ size' = sz
        /\ IF r.acceptedFiles # acceptedFiles \/ r.rejectedFiles # rejectedFiles
           THEN \E u \in {PreviewEffect(r.acceptedFiles, r.rejectedFiles, sz)} :
                    /\ previewUrls' = u.previewUrls
                    /\ objectUrlsRef' = u.objectUrlsRef
                    /\ createdUrls' = u.createdUrls
                    /\ revokedUrls' = u.revokedUrls
           ELSE UNCHANGED <<previewUrls, objectUrlsRef, createdUrls, revokedUrls>>
        /\ UNCHANGED <<variant, fileName, fileType, lastModified, mounted>>
        /\ UNCHANGED <<csrfVars, downloadVars>>

\* A task that creates no File object leaves every file.size as it is.
Commit(r0, cost, op) == CommitSized(r0, cost, op, size)

AddAcceptedFilesStep(k) ==
    /\ nextId + k <= NFiles
    /\ Commit(AddAcceptedFiles(State, k), 0, <<"addAcceptedFiles", k>>)

DoAddAcceptedFiles == \E k \in 1..2 : AddAcceptedFilesStep(k)

DoAddRejectedFiles ==
    /\ nextRejected < NRejected
    /\ Commit(AddRejectedFiles(State), 1, <<"addRejectedFiles", 0>>)

DoRemoveRejectedFile ==
    \E index \in 1..Len(rejectedFiles) :
        Commit(RemoveRejectedFile(State, index), 1, <<"removeRejectedFile", index>>)

RemoveAcceptedFile(s, index) ==
    IF variant = "effect" THEN RemoveAcceptedFileE(s, index)
    ELSE RemoveAcceptedFileD(s, index)

RemoveAcceptedFileStep(index) ==
    Commit(RemoveAcceptedFile(State, index), 1,
           <<"removeAcceptedFile", acceptedFiles[index]>>)

DoRemoveAcceptedFile ==
    \E index \in 1..Len(acceptedFiles) : RemoveAcceptedFileStep(index)

ClearAllFiles(s) ==
    IF variant = "effect" THEN ClearAllFilesE(s) ELSE ClearAllFilesD(s)

DoClearAllFiles == Commit(ClearAllFiles(State), 1, <<"clearAllFiles", 0>>)

CancelAllUploads(s) ==
    IF variant = "effect" THEN CancelAllUploadsE(s) ELSE CancelAllUploadsD(s)

DoCancelAllUploads == Commit(CancelAllUploads(State), 1, <<"cancelAllUploads", 0>>)

CancelUpload(s, fileId) ==
    IF variant = "effect" THEN CancelUploadE(s, fileId) ELSE CancelUploadD(s, fileId)

CancelUploadStep(fileId) ==
    Commit(CancelUpload(State, fileId), 1, <<"cancelUpload", fileId>>)

DoCancelUpload == \E fileId \in Created : CancelUploadStep(fileId)

RetryUpload(s, fileId) ==
    IF variant = "effect" THEN RetryUploadE(s, fileId) ELSE RetryUploadD(s, fileId)

RetryUploadStep(fileId) ==
    Commit(RetryUpload(State, fileId), 1, <<"retryUpload", fileId>>)

DoRetryUpload ==
    \E fileId \in Created \cup Range(rejectedFiles) \cup {UnknownId} :
        RetryUploadStep(fileId)

\* uploadFiles(files) called `times` times by one task, every call reading
\* the uploadQueue of the same render.
RECURSIVE UploadFiles(_, _, _, _)
UploadFiles(s, c, files, times) ==
    IF times = 0 THEN s
    ELSE UploadFiles(IF variant = "effect" THEN UploadFilesE(s, c.uploadQueue, files)
                     ELSE UploadFilesD(s, c, files),
                     c, files, times - 1)

DoUploadFiles ==
    \E files \in PendingSelections, times \in 1..MaxCallsPerTask :
        Commit(UploadFiles(State, Closure(State), files, times), 1,
               <<"uploadFiles", times>>)

DoUpdateUploadConfig ==
    \E limit \in Limits :
        /\ limit # maxConcurrentUploads
        /\ Commit(UpdateUploadConfig(State, limit), 1, <<"updateUploadConfig", limit>>)

DoClearUploadComplete ==
    /\ uploadComplete # {}
    /\ Commit(ClearUploadComplete(State), 1, <<"clearUploadComplete", 0>>)

\* the 50 ms timer of the admission effect fires
AdmitTimerFires ==
    \E c \in admitTimer :
        Commit(ProcessQueueE([State EXCEPT !.admitTimer = {}], c), 0,
               <<"processQueue", 0>>)

\* a setTimeout of uploadFiles / processUploadQueue fires: timers run in the
\* order of their due times, and in the order of their creation when a timer
\* created earlier is due no later
QueueTimerFires ==
    \E i \in 1..Len(timers) :
        /\ \A j \in 1..(i - 1) : timers[j].delay > timers[i].delay
        /\ Commit(ProcessUploadQueueD([State EXCEPT !.timers = RemoveAt(@, i)],
                                      timers[i]),
                  0, <<"processUploadQueue", 0>>)

SweepTimerFires ==
    /\ sweepTimers > 0
    /\ Commit(Sweep(State), 0, <<"sweep", 0>>)

\* ------------------------------------------------------- transport events
ProgressStep(call, p) ==
    /\ p > call.sent
    /\ Commit(OnUploadProgress(
                  [State EXCEPT !.inflight = (@ \ {call}) \cup {[call EXCEPT !.sent = p]}],
                  call.file, p),
              0, <<"onUploadProgress", call.file>>)

ProgressEvent == \E call \in inflight, p \in ProgressValues : ProgressStep(call, p)

UploadSucceeded(s, id) ==
    IF variant = "effect" THEN UploadSucceededE(s, id) ELSE UploadSucceededD(s, id)

UploadFailed(s, id, msg) ==
    IF variant = "effect" THEN UploadFailedE(s, id, msg) ELSE UploadFailedD(s, id, msg)

UploadCancelled(s, id) ==
    IF variant = "effect" THEN UploadCancelledE(s, id) ELSE UploadCancelledD(s, id)

Settled(s, call) ==
    IF variant = "effect" THEN s ELSE PromiseSettledD(s, call)

SuccessStep(call) ==
    /\ ~call.cancelled
    /\ Commit(Settled(UploadSucceeded([State EXCEPT !.inflight = @ \ {call}],
                                      call.file), call),
              0, <<"success", call.file>>)

SuccessEvent == \E call \in inflight : SuccessStep(call)

FailureStep(call, msg) ==
    /\ ~call.cancelled
    /\ Commit(Settled(UploadFailed([State EXCEPT !.inflight = @ \ {call}],
                                   call.file, msg), call),
              0, <<"failure", call.file>>)

FailureEvent == \E call \in inflight, msg \in FailureMessages : FailureStep(call, msg)

CancelStep(call) ==
    /\ call.cancelled
    /\ Commit(Settled(UploadCancelled([State EXCEPT !.inflight = @ \ {call}],
                                      call.file), call),
              0, <<"cancelled", call.file>>)

CancelEvent == \E call \in inflight : CancelStep(call)

\* -------------------------------------------------------------- behaviours
InitUpload ==
    /\ variant \in Variants
    /\ acceptedFiles = <<>>
    /\ rejectedFiles = <<>>
    /\ uploadQueue = <<>>
    /\ activeUploads = {}
    /\ uploadErrors = EmptyMap
    /\ uploadComplete = {}
    /\ maxConcurrentUploads \in Limits
    /\ status = [f \in Ids |-> "pending"]
    /\ progress = [f \in Ids |-> 0]
    /\ cancelTokenSource = [f \in Ids |-> 0]
    /\ started = [f \in Ids |-> 0]
    /\ inflight = {}
    /\ admitTimer = {}
    /\ timers = <<>>
    /\ procs = {}
    /\ sweepTimers = 0
    /\ nextId = 0
    /\ nextRejected = 0
    /\ userOps = 0
    /\ size = [f \in Ids \cup RejectedIds |->
                IF f \in Ids THEN MaxFileSize ELSE MaxFileSize + 1]
    /\ lastOp = <<"mount", 0>>

\* No preview exists when the provider mounts.
InitPreview ==
    /\ previewUrls = [k \in {} |-> 0]
    /\ objectUrlsRef = {}
    /\ createdUrls = 0
    /\ revokedUrls = {}
    /\ mounted = TRUE

\* ------------------------------------------------------ CSRF token cache
Tokens == {"t1", "t2"}
Null == "null"
Callers == 1..3
NoFetch == 0

\* let csrfTokenCache = null; let isFetchingToken = false; no call was made.
InitCsrf ==
    /\ csrfTokenCache = Null
    /\ isFetchingToken = FALSE
    /\ csrfPc = [c \in Callers |-> "idle"]
    /\ fetchCount = 0
    /\ fetchOf = [c \in Callers |-> NoFetch]
    /\ joined = {}
    /\ stored = [n \in 1..Cardinality(Callers) |-> "none"]
    /\ returned = [c \in Callers |-> "none"]

\* fetchAndCacheCSRFToken up to its first await: the caller sends the request
\* when the busy flag is clear, and otherwise starts polling the flag.
FetchAndCacheCSRFToken(c) ==
    /\ csrfPc[c] = "idle"
    /\ IF ~isFetchingToken
       THEN /\ isFetchingToken' = TRUE
            /\ fetchCount' = fetchCount + 1
            /\ csrfPc' = [csrfPc EXCEPT ![c] = "fetching"]
            /\ fetchOf' = [fetchOf EXCEPT ![c] = fetchCount + 1]
            /\ UNCHANGED joined
       ELSE /\ csrfPc' = [csrfPc EXCEPT ![c] = "waiting"]
            /\ fetchOf' = [fetchOf EXCEPT ![c] = fetchCount]
            /\ joined' = joined \cup {c}
            /\ UNCHANGED <<isFetchingToken, fetchCount>>
    /\ UNCHANGED <<csrfTokenCache, stored, returned, mediaVars, downloadVars>>

\* baseQueryWithCSRF, prepareHeaders of a non-GET request: the token is
\* fetched when the cache is empty.
PrepareHeaders == \E c \in Callers : csrfTokenCache = Null /\ FetchAndCacheCSRFToken(c)

\* baseQueryWithCSRF after a 403 answer: the token is fetched again.
RefreshAfter403 == \E c \in Callers : FetchAndCacheCSRFToken(c)

\* The request of caller c settles: result.data holds a token, or the result
\* is an error, or baseQuery threw. The finally block clears the flag, the
\* while loop is skipped and the cache is returned.
FetchSettles(c, outcome, token) ==
    /\ csrfPc[c] = "fetching"
    /\ \E value \in {IF outcome = "data" THEN token ELSE Null} :
        /\ csrfTokenCache' = value
        /\ stored' = [stored EXCEPT ![fetchOf[c]] = value]
        /\ returned' = [returned EXCEPT ![c] = value]
    /\ isFetchingToken' = FALSE
    /\ csrfPc' = [csrfPc EXCEPT ![c] = "returned"]
    /\ UNCHANGED <<fetchCount, fetchOf, joined, mediaVars, downloadVars>>

DoFetchSettles ==
    \E c \in Callers, outcome \in {"data", "error", "throw"}, token \in Tokens :
        FetchSettles(c, outcome, token)

\* A waiting call that returned the cache at its first timer, whatever the flag.
PollReturnsAtOnce(c) ==
    /\ csrfPc[c] = "waiting"
    /\ csrfPc' = [csrfPc EXCEPT ![c] = "returned"]
    /\ returned' = [returned EXCEPT ![c] = csrfTokenCache]
    /\ UNCHANGED <<csrfTokenCache, isFetchingToken, fetchCount, fetchOf, joined,
                   stored, mediaVars, downloadVars>>

\* A 100 ms timer of the while loop fires with the flag clear: the waiting
\* call returns the cache. (With the flag set it arms the next timer.)
PollReturns(c) ==
    /\ csrfPc[c] = "waiting"
    /\ ~isFetchingToken
    /\ csrfPc' = [csrfPc EXCEPT ![c] = "returned"]
    /\ returned' = [returned EXCEPT ![c] = csrfTokenCache]
    /\ UNCHANGED <<csrfTokenCache, isFetchingToken, fetchCount, fetchOf, joined,
                   stored, mediaVars, downloadVars>>

DoPollReturns == \E c \in Callers : PollReturns(c)

\* ------------------------------------------------------- download hook
Items == 1..2
MaxDownloads == 3
MaxResets == 2
DownloadProgressValues == {50}
NoError == "null"
NoItem == 0

IdleDownloadState ==
    [isDownloading |-> FALSE, progress |-> 0, error |-> NoError,
     downloadingFileId |-> NoItem]

InitDownload ==
    /\ downloadState = IdleDownloadState
    /\ downloads = [d \in Items |-> "idle"]
    /\ downloadCount = 0
    /\ resetTimers = 0

\* download(mediaItem) up to the fetch of downloadViaBlob.
Download(d) ==
    /\ downloads[d] # "running"
    /\ downloadCount < MaxDownloads
    /\ downloadState' = [isDownloading |-> TRUE, progress |-> 0, error |-> NoError,
                         downloadingFileId |-> d]
    /\ downloads' = [downloads EXCEPT ![d] = "running"]
    /\ downloadCount' = downloadCount + 1
    /\ UNCHANGED <<resetTimers, mediaVars, csrfVars>>

DoDownload == \E d \in Items : Download(d)

\* onProgress of a running download.
OnProgress(d, p) ==
    /\ downloads[d] = "running"
    /\ downloadState' = [downloadState EXCEPT !.progress = p]
    /\ UNCHANGED <<downloads, downloadCount, resetTimers, mediaVars, csrfVars>>

DoOnProgress == \E d \in Items, p \in DownloadProgressValues : OnProgress(d, p)

\* onComplete, after the blob download or after the direct fallback: the
\* state is marked done and the 2000 ms reset is armed.
OnComplete(d) ==
    /\ downloads[d] = "running"
    /\ resetTimers < MaxResets
    /\ downloadState' = [downloadState EXCEPT !.isDownloading = FALSE,
                                              !.progress = 100]
    /\ downloads' = [downloads EXCEPT ![d] = "complete"]
    /\ resetTimers' = resetTimers + 1
    /\ UNCHANGED <<downloadCount, mediaVars, csrfVars>>

DoOnComplete == \E d \in Items : OnComplete(d)

\* onError and the catch block of download: both methods failed.
OnError(d) ==
    /\ downloads[d] = "running"
    /\ downloadState' = [downloadState EXCEPT !.isDownloading = FALSE,
                                              !.error = "Download failed",
                                              !.downloadingFileId = NoItem]
    /\ downloads' = [downloads EXCEPT ![d] = "error"]
    /\ UNCHANGED <<downloadCount, resetTimers, mediaVars, csrfVars>>

DoOnError == \E d \in Items : OnError(d)

\* The reset armed by an onComplete fires.
ResetTimerFires ==
    /\ resetTimers > 0
    /\ resetTimers' = resetTimers - 1
    /\ downloadState' = IdleDownloadState
    /\ UNCHANGED <<downloads, downloadCount, mediaVars, csrfVars>>

\* clearDownloadState, the button shown next to an error message.
ClearDownloadState ==
    /\ downloadState.error # NoError
    /\ downloadState' = IdleDownloadState
    /\ UNCHANGED <<downloads, downloadCount, resetTimers, mediaVars, csrfVars>>

\* A session in which the files are documents, which get no preview.
Init ==
    /\ InitUpload
    /\ InitPreview
    /\ InitCsrf
    /\ InitDownload
    /\ fileName = [f \in Ids \cup RejectedIds |-> "b.pdf"]
    /\ fileType = [f \in Ids \cup RejectedIds |-> "application/pdf"]
    /\ lastModified = [f \in Ids \cup RejectedIds |-> f]

Next ==
    \/ DoAddAcceptedFiles
    \/ DoAddRejectedFiles
    \/ DoRemoveRejectedFile
    \/ DoRemoveAcceptedFile
    \/ DoClearAllFiles
    \/ DoCancelAllUploads
    \/ DoCancelUpload
    \/ DoRetryUpload
    \/ DoUploadFiles
    \/ DoUpdateUploadConfig
    \/ DoClearUploadComplete
    \/ AdmitTimerFires
    \/ QueueTimerFires
    \/ SweepTimerFires
    \/ ProgressEvent
    \/ SuccessEvent
    \/ FailureEvent
    \/ CancelEvent

Spec == Init /\ [][Next]_vars

\* ------------------------------------------------------- the dropzone
\* useDropzone is given maxSize and no minSize, so the library's default
\* minimum applies.
DropzoneMinSize == 0

Sizes == {0, 1, MaxFileSize, MaxFileSize + 1}

\* The size check the dropzone applies to a dropped file: its error codes.
FileErrors(sz) ==
    {code \in {"file-too-large", "file-too-small"} :
        \/ code = "file-too-large" /\ sz > MaxFileSize
        \/ code = "file-too-small" /\ sz < DropzoneMinSize}

\* A file of sz bytes is dropped: onDropAccepted or onDropRejected runs.
DropStep(sz) ==
    IF FileErrors(sz) = {}
    THEN /\ nextId + 1 <= NFiles
         /\ CommitSized(AddAcceptedFiles(State, 1), 0, <<"onDropAccepted", sz>>,
                        [size EXCEPT ![nextId + 1] = sz])
    ELSE /\ nextRejected < NRejected
         /\ CommitSized(AddRejectedFiles(State), 1, <<"onDropRejected", sz>>,
                        [size EXCEPT ![NFiles + nextRejected + 1] = sz])

DoDrop == \E sz \in Sizes : DropStep(sz)

\* Files of any size are dropped and uploaded.
DropNext ==
    \/ DoDrop
    \/ DoUploadFiles
    \/ AdmitTimerFires
    \/ QueueTimerFires
    \/ SweepTimerFires
    \/ ProgressEvent
    \/ SuccessEvent
    \/ FailureEvent

DropSpec == Init /\ [][DropNext]_vars

\* ------------------------------------------------- batches run to their end
\* The uploader's auto-dismiss effect: 3000 ms after a summary is reported it
\* calls clearUploadComplete. The 2000 ms sweep timer armed with the same
\* report fires first.
AutoDismiss ==
    /\ uploadComplete # {}
    /\ sweepTimers = 0
    /\ Commit(ClearUploadComplete(State), 0, <<"autoDismiss", 0>>)

\* Files are added and uploaded, and nothing is cancelled or removed by hand.
LiveNext ==
    \/ DoAddAcceptedFiles
    \/ DoUploadFiles
    \/ AutoDismiss
    \/ AdmitTimerFires
    \/ QueueTimerFires
    \/ SweepTimerFires
    \/ ProgressEvent
    \/ SuccessEvent
    \/ FailureEvent

\* Weak fairness of the admission timers and of the settle of transport calls,
\* with the condition under which each can run written out.
AdmitTimerFair ==
    []<>(admitTimer = {}) \/ []<><<lastOp'[1] = "processQueue">>_vars

QueueTimerFair ==
    []<>(timers = <<>>) \/ []<><<lastOp'[1] = "processUploadQueue">>_vars

TransportFair ==
    []<>(inflight = {}) \/ []<><<lastOp'[1] \in {"success", "failure"}>>_vars

\* Every armed timer fires and every transport call settles.
LiveSpec ==
    /\ Init
    /\ [][LiveNext]_vars
    /\ WF_vars(SweepTimerFires)
    /\ WF_vars(AutoDismiss)
    /\ AdmitTimerFair
    /\ QueueTimerFair
    /\ TransportFair

\* ------------------------------------------------------------------ claims
InAccepted(f) == Contains(acceptedFiles, f)

\* ----------------------------------------------------- sessions with images
FileNames == {"a.png", "b.pdf"}

\* The type the browser gives a file, from the extension of its name.
TypeOf(name) == IF name = "a.png" THEN "image/png" ELSE "application/pdf"

Stamps == {1, 2}

\* Files of any name and modification time, two of them possibly alike.
PreviewInit ==
    /\ InitUpload
    /\ InitPreview
    /\ InitCsrf
    /\ InitDownload
    /\ fileName \in [Ids \cup RejectedIds -> FileNames]
    /\ fileType = [f \in Ids \cup RejectedIds |-> TypeOf(fileName[f])]
    /\ lastModified \in [Ids \cup RejectedIds -> Stamps]

\* The cleanup of the unmount effect revokes what objectUrlsRef holds.
Unmount ==
    /\ mounted
    /\ mounted' = FALSE
    /\ revokedUrls' = revokedUrls \cup objectUrlsRef
    /\ objectUrlsRef' = {}
    /\ lastOp' = <<"unmount", 0>>
    /\ UNCHANGED <<variant, acceptedFiles, rejectedFiles, uploadQueue, activeUploads,
                   uploadErrors, uploadComplete, maxConcurrentUploads, status,
                   progress, cancelTokenSource, started, inflight, admitTimer,
                   timers, procs, sweepTimers, nextId, nextRejected, userOps, size,
                   fileName, fileType, lastModified, previewUrls, createdUrls>>
    /\ UNCHANGED <<csrfVars, downloadVars>>

\* Files are added and removed, and the provider is unmounted at some point.
PreviewNext ==
    \/ DoAddAcceptedFiles
    \/ DoAddRejectedFiles
    \/ DoRemoveRejectedFile
    \/ DoRemoveAcceptedFile
    \/ DoClearAllFiles
    \/ Unmount

PreviewSpec == PreviewInit /\ [][PreviewNext]_vars

\* ------------------------------------------- requests that need the token
\* The API slices that use baseQueryWithCSRF, with no upload under way.
CsrfInit ==
    /\ Init
    /\ variant = "direct"
    /\ maxConcurrentUploads = MaxLimit

CsrfNext ==
    \/ PrepareHeaders
    \/ RefreshAfter403
    \/ DoFetchSettles
    \/ DoPollReturns

CsrfSpec == CsrfInit /\ [][CsrfNext]_vars

\* ------------------------------------------------ downloads from the grid
DownloadNext ==
    \/ DoDownload
    \/ DoOnProgress
    \/ DoOnComplete
    \/ DoOnError
    \/ ResetTimerFires
    \/ ClearDownloadState

DownloadSpec == CsrfInit /\ [][DownloadNext]_vars


\* C1: in every reachable state the number of ids in activeUploads is at most
\* uploadConfig.maxConcurrentUploads.
C1_ActiveWithinLimit == Cardinality(activeUploads) <= maxConcurrentUploads

\* C2: an id is in activeUploads if and only if the candidate with that id is
\* in acceptedFiles with status uploading.
C2_ActiveIffUploading ==
    \A f \in Ids : f \in activeUploads <=> (InAccepted(f) /\ status[f] = "uploading")

\* C3: uploadFiles called twice with the same pending candidates, the second
\* call made before the queue update of the first is rendered included, leaves
\* every candidate at most once in uploadQueue, and no admission starts
\* uploadFile twice for one candidate.
C3_EnqueuedAndAdmittedOnce ==
    [][\A f \in Ids :
           /\ Cardinality({i \in 1..Len(uploadQueue') : uploadQueue'[i] = f}) <= 1
           /\ started'[f] <= started[f] + 1]_vars

\* an admission pass: the timer of the admission effect, or a timer of
\* uploadFiles / processUploadQueue
AdmissionPass == AdmitTimerFires \/ QueueTimerFires

AvailableSlots == maxConcurrentUploads - Cardinality(activeUploads)

PendingQueued == {f \in Range(uploadQueue) : status[f] = "pending"}

\* C4: an admission pass starts exactly min(maxConcurrentUploads -
\* |activeUploads|, number of pending queued candidates) candidates when that
\* slot count is positive, and none when it is zero or negative.
C4_AdmitsMinOfSlotsAndPending ==
    [][AdmissionPass =>
           Cardinality({f \in Ids : started'[f] > started[f]})
               = IF AvailableSlots > 0
                 THEN Min(AvailableSlots, Cardinality(PendingQueued))
                 ELSE 0]_vars

\* nothing is scheduled that could still run an admission pass
Quiescent == timers = <<>> /\ admitTimer = {} /\ inflight = {} /\ procs = {}

\* C5: a candidate that is pending in uploadQueue is admitted without a
\* further uploadFiles call: when no timer, transport call or processor is
\* left and a slot is free, no candidate is still pending in the queue.
C5_NoPendingLeftBehind ==
    (Quiescent /\ AvailableSlots > 0)
        => ~\E f \in Range(uploadQueue) : InAccepted(f) /\ status[f] = "pending"

\* C6: cancelUpload(id) on an uploading candidate signals its cancel token,
\* sets its status to cancelled, removes id from activeUploads so that the
\* active count decreases by exactly 1, leaves its progress at the last value
\* and leaves status and progress of every other candidate unchanged.
C6_CancelUploading ==
    [][\A f \in Ids :
           (InAccepted(f) /\ status[f] = "uploading" /\ CancelUploadStep(f)) =>
               /\ \A c \in inflight :
                      (c.file = f /\ c.attempt = cancelTokenSource[f])
                          => [c EXCEPT !.cancelled = TRUE] \in inflight'
               /\ status'[f] = "cancelled"
               /\ f \notin activeUploads'
               /\ Cardinality(activeUploads') = Cardinality(activeUploads) - 1
               /\ progress'[f] = progress[f]
               /\ \A g \in Range(acceptedFiles) \ {f} :
                      status'[g] = status[g] /\ progress'[g] = progress[g]]_vars

\* cancelUpload has just cancelled a candidate mid-upload, at progress 42,
\* while another candidate goes on uploading
C6_CancelledMidUpload ==
    \E f \in Ids, g \in Ids :
        /\ lastOp = <<"cancelUpload", f>>
        /\ InAccepted(f) /\ status[f] = "cancelled" /\ progress[f] = 42
        /\ f \notin activeUploads
        /\ \E c \in inflight : c.file = f /\ c.cancelled
        /\ g # f /\ InAccepted(g) /\ status[g] = "uploading" /\ g \in activeUploads

\* C7: a progress event that arrives for a candidate whose status is not
\* uploading is discarded: progress and status of the candidate stay the same.
C7_LateProgressDiscarded ==
    [][\A call \in inflight, p \in ProgressValues :
           (/\ InAccepted(call.file)
            /\ status[call.file] # "uploading"
            /\ ProgressStep(call, p))
               => /\ progress'[call.file] = progress[call.file]
                  /\ status'[call.file] = status[call.file]]_vars

\* C8: the upload that ends a batch (activeUploads and uploadQueue become
\* empty) is counted in the summary set at that moment, a success under
\* successful and a failure under failed, and clearUploadComplete does not
\* make the same batch be reported again.
C8_BatchReportedOnce ==
    [][/\ \A call \in inflight :
              (/\ InAccepted(call.file)
               /\ uploadComplete = {}
               /\ activeUploads' = {}
               /\ uploadQueue' = <<>>)
                  => /\ SuccessStep(call)
                            => \E r \in uploadComplete' : r.successful >= 1
                     /\ (\E msg \in FailureMessages : FailureStep(call, msg))
                            => \E r \in uploadComplete' : r.failed >= 1
       /\ DoClearUploadComplete => uploadComplete' = {}]_vars

\* C9: retryUpload(id) on a failed candidate resets status to pending and
\* progress to 0, clears its uploadErrors entry, puts it back in uploadQueue,
\* and the candidate is admitted again once a slot is free: the retry does not
\* leave it pending with a free slot and nothing scheduled.
C9_RetryFailed ==
    [][\A f \in Ids :
           (InAccepted(f) /\ status[f] = "failed" /\ RetryUploadStep(f)) =>
               /\ status'[f] \in {"pending", "uploading"}
               /\ progress'[f] = 0
               /\ f \notin DOMAIN uploadErrors'
               /\ Contains(uploadQueue', f)
               /\ ~(/\ status'[f] = "pending"
                    /\ maxConcurrentUploads' - Cardinality(activeUploads') > 0
                    /\ timers' = <<>> /\ admitTimer' = {}
                    /\ inflight' = {} /\ procs' = {})]_vars

Eligible(id) == InAccepted(id) /\ status[id] \in {"failed", "cancelled"}

\* C10: retryUpload(id) for a candidate that is pending, uploading or
\* completed, for the id of a rejected file and for an unknown id leaves
\* acceptedFiles (with status and progress of its files), uploadQueue,
\* activeUploads and uploadErrors unchanged and starts no transport call.
C10_RetryIneligibleIsNoOp ==
    [][\A id \in Ids \cup RejectedIds \cup {UnknownId} :
           (~Eligible(id) /\ RetryUploadStep(id)) =>
               UNCHANGED <<acceptedFiles, status, progress, uploadQueue,
                           activeUploads, uploadErrors, inflight, started>>]_vars

\* retryUpload has just been called for a completed candidate while a failed
\* one and a rejected file are listed
C10_RetryIgnored ==
    \E id \in Ids :
        /\ lastOp = <<"retryUpload", id>>
        /\ InAccepted(id) /\ status[id] = "completed" /\ progress[id] = 100
        /\ \E g \in Range(acceptedFiles) : status[g] = "failed"

\* A candidate that is in none of acceptedFiles, uploadQueue and activeUploads
Gone(f) ==
    /\ ~Contains(acceptedFiles, f)
    /\ ~Contains(uploadQueue, f)
    /\ f \notin activeUploads

\* The same of the state after the step
GoneAfter(f) ==
    /\ ~Contains(acceptedFiles', f)
    /\ ~Contains(uploadQueue', f)
    /\ f \notin activeUploads'

\* C11: removeAcceptedFile on an uploading candidate signals the cancel token
\* of its call and leaves the candidate in none of acceptedFiles, uploadQueue
\* and activeUploads; the later settle of a cancelled call of a removed
\* candidate does not put it back into any of them.
C11_RemoveUploading ==
    [][/\ \A index \in 1..Len(acceptedFiles) :
            (/\ status[acceptedFiles[index]] = "uploading"
             /\ RemoveAcceptedFileStep(index))
            => LET f == acceptedFiles[index] IN
               /\ \A c \in inflight :
                    (c.file = f /\ c.attempt = cancelTokenSource[f])
                    => [c EXCEPT !.cancelled = TRUE] \in inflight'
               /\ GoneAfter(f)
       /\ \A call \in inflight :
            (Gone(call.file) /\ CancelStep(call)) => GoneAfter(call.file)
      ]_vars

\* removeAcceptedFile was the second user operation, after uploadFiles, and
\* removed a candidate whose call is in flight with its token signalled.
C11_RemovedMidUpload ==
    \E f \in Ids :
        /\ lastOp = <<"removeAcceptedFile", f>>
        /\ userOps = 2
        /\ Gone(f)
        /\ \E c \in inflight : c.file = f /\ c.cancelled

\* C12: for every candidate in every reachable state, a cancellation handle
\* (cancelTokenSource) is defined if and only if the candidate's status is
\* uploading.
C12_HandleIffUploading ==
    \A f \in Range(acceptedFiles) :
        cancelTokenSource[f] # 0 <=> status[f] = "uploading"

\* C13: a transport failure of one candidate's upload sets that candidate's
\* status to failed and records the error message under its id; the status and
\* progress of every other candidate are unchanged and every other in-flight
\* call stays in flight, none added.
C13_FailureIsLocal ==
    [][\A call \in inflight, msg \in FailureMessages :
        (InAccepted(call.file) /\ FailureStep(call, msg))
        => /\ status'[call.file] = "failed"
           /\ call.file \in DOMAIN uploadErrors'
           /\ uploadErrors'[call.file] = msg
           /\ inflight' = inflight \ {call}
           /\ \A g \in Range(acceptedFiles) \ {call.file} :
                /\ InAccepted(g)'
                /\ status'[g] = status[g]
                /\ progress'[g] = progress[g]
      ]_vars

\* One upload has just failed while another candidate is still uploading with
\* its call in flight.
C13_FailedNextToUploading ==
    \E f, g \in Ids :
        /\ g # f
        /\ lastOp = <<"failure", f>>
        /\ InAccepted(f) /\ status[f] = "failed"
        /\ f \in DOMAIN uploadErrors
        /\ InAccepted(g) /\ status[g] = "uploading" /\ progress[g] = 42
        /\ g \in activeUploads
        /\ \E c \in inflight : c.file = g /\ ~c.cancelled

\* C14: after cancelAllUploads, activeUploads is empty, uploadQueue is empty,
\* no candidate in acceptedFiles has status uploading or pending, and the
\* cancel token of each in-flight call has been signalled.
C14_CancelAllLeavesNothingRunning ==
    [][DoCancelAllUploads
        => /\ activeUploads' = {}
           /\ uploadQueue' = <<>>
           /\ \A f \in Range(acceptedFiles') :
                status'[f] \notin {"uploading", "pending"}
           /\ \A c \in inflight' : InAccepted(c.file) => c.cancelled
      ]_vars

\* Nothing is listed: no candidate, no rejected file, no queue entry, no active
\* upload and no error message.
AllEmpty ==
    /\ acceptedFiles = <<>>
    /\ rejectedFiles = <<>>
    /\ uploadQueue = <<>>
    /\ activeUploads = {}
    /\ DOMAIN uploadErrors = {}

\* C15: after clearAllFiles, acceptedFiles, rejectedFiles, uploadQueue,
\* activeUploads and uploadErrors are all empty and uploadComplete is null;
\* the settle of a call that was in flight leaves all of them empty.
C15_ClearAllEmptiesEverything ==
    [][/\ DoClearAllFiles => (AllEmpty' /\ uploadComplete' = {})
       /\ (AllEmpty /\ (SuccessEvent \/ FailureEvent \/ CancelEvent)) => AllEmpty'
      ]_vars

\* The candidate is in an upload queue: the uploadQueue state, or the copy of
\* it or of the files argument that a pending timer or admission pass holds.
Requested(q, at, ts, ps, f) ==
    \/ Contains(q, f)
    \/ \E c \in at : Contains(c.uploadQueue, f)
    \/ \E i \in 1..Len(ts) : Contains(ts[i].queueFiles, f) \/ Contains(ts[i].c.uploadQueue, f)
    \/ \E p \in ps : Contains(p.queueFiles, f) \/ Contains(p.c.uploadQueue, f)

SizeAllowed(f) == size[f] > 0 /\ size[f] <= MaxFileSize

\* C17: a file of 0 bytes and a file larger than uploadConfig.maxFileSize are
\* rejected at validation: neither is ever in acceptedFiles, uploadQueue or
\* activeUploads.
C17_BadSizesNeverCandidates ==
    \A f \in Range(acceptedFiles) \cup Range(uploadQueue) \cup activeUploads :
        SizeAllowed(f)

\* The transport calls of candidate f that have not settled
Outstanding(f) == {c \in inflight : c.file = f}

\* C18: at any time each candidate has at most one outstanding transport call.
C18_OneCallPerCandidate ==
    \A f \in Ids : Cardinality(Outstanding(f)) <= 1

\* The status changes of the upload state machine
Transitions ==
    {<<"pending", "uploading">>, <<"uploading", "completed">>,
     <<"uploading", "failed">>, <<"uploading", "cancelled">>,
     <<"failed", "pending">>, <<"cancelled", "pending">>}

\* What one task can do to a status: one transition, or retryUpload's
\* re-queue followed by the start of the upload in the same task.
TaskTransitions ==
    Transitions \cup {<<"failed", "uploading">>, <<"cancelled", "uploading">>}

\* C19: every change of the status of a candidate is one of pending to
\* uploading, uploading to completed, uploading to failed, uploading to
\* cancelled, failed to pending, cancelled to pending.
C19_OnlyListedTransitions ==
    [][\A f \in Range(acceptedFiles) :
        (Contains(acceptedFiles', f) /\ status'[f] # status[f])
        => <<status[f], status'[f]>> \in TaskTransitions
      ]_vars

\* C20: completed is absorbing: a candidate whose status is completed keeps
\* that status in every step that does not remove it.
C20_CompletedIsAbsorbing ==
    [][\A f \in Range(acceptedFiles) :
        (status[f] = "completed" /\ Contains(acceptedFiles', f))
        => status'[f] = "completed"
      ]_vars

\* C21: when the transport call of an uploading candidate reports success, the
\* candidate's status becomes completed with progress 100, its id leaves
\* activeUploads, and the candidate stays in acceptedFiles.
C21_SuccessCompletes ==
    [][\A call \in inflight :
        (/\ InAccepted(call.file)
         /\ status[call.file] = "uploading"
         /\ SuccessStep(call))
        => /\ Contains(acceptedFiles', call.file)
           /\ status'[call.file] = "completed"
           /\ progress'[call.file] = 100
           /\ call.file \notin activeUploads'
      ]_vars

\* An upload of f has just settled as a success or a failure, and it left
\* activeUploads and uploadQueue empty.
BatchEnded(f) ==
    /\ lastOp \in {<<"success", f>>, <<"failure", f>>}
    /\ activeUploads = {}
    /\ uploadQueue = <<>>

\* C22: whenever activeUploads and uploadQueue are both empty after a
\* candidate has reached completed or failed, a batch-completion summary is
\* eventually reported, and the completed and failed candidates are eventually
\* swept out of acceptedFiles.
C22_BatchEventuallyReported ==
    \A f \in Ids :
        /\ BatchEnded(f) ~> (uploadComplete # {})
        /\ BatchEnded(f)
             ~> (\A g \in Range(acceptedFiles) : status[g] \notin {"completed", "failed"})

\* uploadFile was called for f in this step
StartedNow(f) == started'[f] > started[f]

\* The candidates other than f that wait in uploadQueue: queued and pending
Waiting(f) == {g \in Range(uploadQueue) \ {f} : InAccepted(g) /\ status[g] = "pending"}

\* The places of f in the queue q
Places(q, f) == {i \in 1..Len(q) : q[i] = f}

\* C23: admission is FIFO among the pending candidates of uploadQueue: an
\* admission pass never admits a candidate while leaving an earlier-queued
\* pending candidate unadmitted, and a retried candidate re-enters the queue
\* behind the candidates already waiting and is not admitted ahead of them.
C23_AdmissionIsFifo ==
    [][/\ AdmissionPass
            => \A a, b \in Range(uploadQueue) :
                (/\ a # b
                 /\ \E i \in Places(uploadQueue, a) :
                        \A j \in Places(uploadQueue, b) : i < j
                 /\ InAccepted(a)
                 /\ status[a] = "pending"
                 /\ StartedNow(b))
                => StartedNow(a)
       /\ \A f \in Ids :
            (Eligible(f) /\ RetryUploadStep(f))
            => \A g \in Waiting(f) :
                /\ StartedNow(f) => StartedNow(g)
                /\ \A i \in Places(uploadQueue', f), j \in Places(uploadQueue', g) : j < i
      ]_vars

\* C24: in every reachable state a candidate whose status is cancelled has no
\* entry in uploadErrors.
C24_CancelledHasNoError ==
    \A f \in Range(acceptedFiles) :
        status[f] = "cancelled" => f \notin DOMAIN uploadErrors

\* C25: within one upload attempt, while the status of a candidate stays
\* uploading, its progress never decreases and stays within 0..100.
C25_ProgressMonotone ==
    [][\A f \in Range(acceptedFiles) :
        (/\ Contains(acceptedFiles', f)
         /\ status[f] = "uploading"
         /\ status'[f] = "uploading"
         /\ started'[f] = started[f])
        => /\ progress'[f] >= progress[f]
           /\ progress'[f] \in 0..100
      ]_vars

\* C26: after every recomputation, previewUrls has an entry exactly for the
\* keys of the image files present, a key that persisted keeps its URL, and
\* every object URL created that is no longer a value of previewUrls has been
\* revoked; also when two files present have the same key.
PreviewValues(m) == {m[k] : k \in DOMAIN m}

C26_PreviewsExact ==
    /\ [](mounted =>
            /\ DOMAIN previewUrls =
                   {getFileKey(f) : f \in {g \in Range(acceptedFiles) \cup Range(rejectedFiles) :
                                              isImageFile(g)}}
            /\ \A u \in 1..createdUrls :
                   u \notin PreviewValues(previewUrls) => u \in revokedUrls)
    /\ [][\A k \in DOMAIN previewUrls \cap DOMAIN previewUrls' :
              previewUrls'[k] = previewUrls[k]]_vars

\* C27: the late settle of a transport call that was cancelled leaves a
\* candidate that has been retried since as it is: its status is not changed
\* to that of the old call, and its id stays in activeUploads and uploadQueue.
LateSettle(call) ==
    /\ CancelStep(call)
    /\ Contains(acceptedFiles, call.file)
    /\ status[call.file] \in {"pending", "uploading"}

C27_LateSettleIgnored ==
    [][\A call \in inflight :
          LateSettle(call) =>
              /\ status'[call.file] # "cancelled"
              /\ call.file \in activeUploads => call.file \in activeUploads'
              /\ Contains(uploadQueue, call.file) =>
                     Contains(uploadQueue', call.file) \/ call.file \in activeUploads'
      ]_vars

\* C28: in every reachable state every key of uploadErrors is the id of a
\* candidate that is in acceptedFiles.
C28_ErrorsOfPresentCandidates ==
    DOMAIN uploadErrors \subseteq Range(acceptedFiles)

\* C29: at most one token request is in flight; a call made while a request is
\* in flight sends none of its own, returns only after that request has
\* finished, and returns the value that request stored in csrfTokenCache; the
\* busy flag is set exactly while a request is in flight.
Fetching == {c \in Callers : csrfPc[c] = "fetching"}

SingleFlight ==
    /\ Cardinality(Fetching) <= 1
    /\ isFetchingToken <=> Fetching # {}
    /\ \A c \in joined :
          /\ csrfPc[c] # "fetching"
          /\ csrfPc[c] = "returned" => stored[fetchOf[c]] # "none"

C30_RunningDownloadIsShown ==
    \A d \in Items :
        downloads[d] = "running" =>
            /\ downloadState.isDownloading
            /\ downloadState.downloadingFileId = d
====
